---- MODULE Spec2Model ----
(***************************************************************************)
(* Verification model of the geojump coordinate engine                     *)
(* (src/plugins/geojump/public/utils/coordinate_parser.ts):                *)
(* CoordinateParser.parseCoordinates, formatCoordinates and validateInput. *)
(*                                                                         *)
(* Text is a sequence of one-character strings.  A number is an integer    *)
(* count of Unit-ths of a degree (Unit = 9 000 000), which represents      *)
(* exactly every decimal with up to six fractional digits (9 units), every *)
(* hundredth of an arc-second (25 units) and every thousandth of an        *)
(* arc-minute (150 units).                                                 *)
(***************************************************************************)
EXTENDS Integers, Sequences, FiniteSets, TLC

\* ------------------------------------------------------------------------
\* Characters and character classes of the JavaScript regular expressions
\* ------------------------------------------------------------------------
DegSign == "°"
Apos == "'"
DQuote == "\""

\* \d
Digit == {"0", "1", "2", "3", "4", "5", "6", "7", "8", "9"}

\* \s (the model's texts use the space and the tab)
WhiteSpace == {" ", "\t"}

\* [NSEW] under the /i flag
CardinalClass == {"N", "S", "E", "W", "n", "s", "e", "w"}

\* [,\s]
Separator == WhiteSpace \cup {","}

DigitValue(c) ==
  CASE c = "0" -> 0 [] c = "1" -> 1 [] c = "2" -> 2 [] c = "3" -> 3
    [] c = "4" -> 4 [] c = "5" -> 5 [] c = "6" -> 6 [] c = "7" -> 7
    [] c = "8" -> 8 [] c = "9" -> 9

DigitChar(d) ==
  CASE d = 0 -> "0" [] d = 1 -> "1" [] d = 2 -> "2" [] d = 3 -> "3"
    [] d = 4 -> "4" [] d = 5 -> "5" [] d = 6 -> "6" [] d = 7 -> "7"
    [] d = 8 -> "8" [] d = 9 -> "9"

\* String.prototype.toUpperCase on a cardinal letter
ToUpperCase(c) ==
  CASE c = "n" -> "N" [] c = "s" -> "S" [] c = "e" -> "E" [] c = "w" -> "W"
    [] OTHER -> c

\* ------------------------------------------------------------------------
\* Numbers
\* ------------------------------------------------------------------------
Unit == 9 * 1000000

\* One millionth of a degree, in units.
Micro == Unit \div 1000000

\* The largest whole number of degrees the model tells apart; every larger
\* magnitude is represented by Huge, which is out of both ranges.
MaxWhole == 230
Huge == (MaxWhole + 1) * Unit

\* The JavaScript values NaN and null where a number is expected.
NaN == 0 - 2147483647
NullNumber == 0 - 2147483646

isNaN(x) == x = NaN

\* Math.abs
Abs(x) == IF x = NaN THEN NaN ELSE IF x < 0 THEN 0 - x ELSE x

Min(a, b) == IF a < b THEN a ELSE b

\* 10^n for n in 0..9
Pow10(n) ==
  <<1, 10, 100, 1000, 10000, 100000, 1000000, 10000000, 100000000,
    1000000000>>[n + 1]

\* ------------------------------------------------------------------------
\* String primitives
\* ------------------------------------------------------------------------
\* Number of consecutive characters of s, from index i on, that are in set.
RunLength(s, i, set) ==
  Cardinality({j \in i..Len(s) : \A k \in i..j : s[k] \in set})

\* Number of consecutive characters of s, from index i on, that are NOT in
\* set.
RunUntil(s, i, set) ==
  Cardinality({j \in i..Len(s) : \A k \in i..j : s[k] \notin set})

\* The natural number written by the n digits of s that start at index i,
\* saturating at cap: the leading zeros are skipped, a number of more than
\* six digits is above every cap in use, and the digits of a shorter one are
\* read half by half.
RECURSIVE Digits(_, _, _)
Digits(s, i, n) ==
  IF n = 0 THEN 0
  ELSE IF n = 1 THEN DigitValue(s[i])
  ELSE Digits(s, i, n \div 2) * Pow10(n - n \div 2)
         + Digits(s, i + n \div 2, n - n \div 2)

Significant(s, i, n, zeros, cap) ==
  IF n - zeros > 6 THEN cap
  ELSE Min(cap, Digits(s, i + zeros, n - zeros))

NatOf(s, i, n, cap) ==
  Significant(s, i, n, Min(n, RunLength(s, i, {"0"})), cap)

\* mutant: only the leading white space is removed
Trim_LeadingOnly(s) == SubSeq(s, 1 + RunLength(s, 1, WhiteSpace), Len(s))

\* String.prototype.trim
Trim(s) ==
  LET lead == RunLength(s, 1, WhiteSpace)
      trail == Cardinality({j \in 1..Len(s) :
                             \A k \in j..Len(s) : s[k] \in WhiteSpace})
  IN IF lead = Len(s) THEN <<>>
     ELSE SubSeq(s, lead + 1, Len(s) - trail)

\* input.replace(/\s+/g, ' ')
\* every maximal run of white space becomes one space: the first character
\* of a run is kept, as a space, and the others are dropped
CollapseWhiteSpace(s) ==
  LET Kept(j) == s[j] \notin WhiteSpace \/ j = 1 \/ s[j - 1] \notin WhiteSpace
      kept == SelectSeq([j \in 1..Len(s) |-> j], Kept)
  IN [k \in 1..Len(kept) |->
        IF s[kept[k]] \in WhiteSpace THEN " " ELSE s[kept[k]]]

\* String.prototype.split(/[,\s]+/): the pieces between maximal runs of
\* separators; a separator run at either end leaves an empty piece there.
Split(s) ==
  LET Starts(j) == s[j] \notin Separator /\ (j = 1 \/ s[j - 1] \in Separator)
      starts == SelectSeq([j \in 1..Len(s) |-> j], Starts)
      Piece(j) == SubSeq(s, j, j + RunUntil(s, j, Separator) - 1)
  IN IF s = <<>> THEN <<<<>>>>
     ELSE (IF s[1] \in Separator THEN <<<<>>>> ELSE <<>>)
            \o [k \in 1..Len(starts) |-> Piece(starts[k])]
            \o (IF s[Len(s)] \in Separator THEN <<<<>>>> ELSE <<>>)

\* Scale a magnitude by 10^e, saturating at Huge.
ScaleUp(m, e) ==
  IF e = 0 \/ m = 0 THEN m
  ELSE IF e > 9 THEN Huge
  ELSE IF m > Huge \div Pow10(e) THEN Huge
  ELSE m * Pow10(e)

ScaleDown(m, e) == IF e > 9 THEN 0 ELSE m \div Pow10(e)

\* parseFloat: skips leading white space, then reads the LONGEST PREFIX that
\* is a decimal literal (sign, digits, fraction, exponent) and ignores
\* whatever follows it; NaN when no prefix is a number.  Fraction digits
\* beyond the sixth are below the model's resolution.

\* The exponent part: nExp digits at index i4 (none: no exponent is read)
Scaled(s, mant, expNeg, i4, nExp) ==
  IF nExp = 0 THEN mant
  ELSE IF expNeg THEN ScaleDown(mant, NatOf(s, i4, nExp, 20))
  ELSE ScaleUp(mant, NatOf(s, i4, nExp, 20))

Exponent(s, mant, i3) ==
  IF i3 <= Len(s) /\ s[i3] \in {"e", "E"}
  THEN (IF i3 + 1 <= Len(s) /\ s[i3 + 1] \in {"+", "-"}
        THEN Scaled(s, mant, s[i3 + 1] = "-", i3 + 2, RunLength(s, i3 + 2, Digit))
        ELSE Scaled(s, mant, FALSE, i3 + 1, RunLength(s, i3 + 1, Digit)))
  ELSE mant

\* nInt digits at index i1, then (dot = 1) a point and nFrac digits
Mantissa(s, i1, nInt, nFrac) ==
  IF NatOf(s, i1, nInt, MaxWhole + 1) > MaxWhole THEN Huge
  ELSE NatOf(s, i1, nInt, MaxWhole + 1) * Unit
         + NatOf(s, i1 + nInt + 1, Min(nFrac, 6), 999999)
             * Pow10(6 - Min(nFrac, 6)) * Micro

Literal(s, i1, nInt, dot, nFrac) ==
  IF nInt = 0 /\ nFrac = 0 THEN NaN
  ELSE Exponent(s, Mantissa(s, i1, nInt, nFrac), i1 + nInt + dot + nFrac)

Unsigned(s, i1, nInt) ==
  IF i1 + nInt <= Len(s) /\ s[i1 + nInt] = "."
  THEN Literal(s, i1, nInt, 1, RunLength(s, i1 + nInt + 1, Digit))
  ELSE Literal(s, i1, nInt, 0, 0)

Negated(x) == IF x = NaN THEN NaN ELSE 0 - x

Signed(s, i0) ==
  IF i0 <= Len(s) /\ s[i0] = "-"
  THEN Negated(Unsigned(s, i0 + 1, RunLength(s, i0 + 1, Digit)))
  ELSE IF i0 <= Len(s) /\ s[i0] = "+"
  THEN Unsigned(s, i0 + 1, RunLength(s, i0 + 1, Digit))
  ELSE Unsigned(s, i0, RunLength(s, i0, Digit))

parseFloat(s) == Signed(s, 1 + RunLength(s, 1, WhiteSpace))

\* parseInt(s, 10) on a captured run of digits
Whole(n) == IF n > MaxWhole THEN Huge ELSE n * Unit

parseInt(s) ==
  IF RunLength(s, 1, Digit) = 0 THEN NaN
  ELSE Whole(NatOf(s, 1, RunLength(s, 1, Digit), MaxWhole + 1))

\* ------------------------------------------------------------------------
\* Regular expressions: a pattern is a sequence of items, matched the way
\* the JavaScript engine does: leftmost start, greedy quantifiers,
\* backtracking.
\* ------------------------------------------------------------------------
Unbounded == 1000

\* set{lo,hi}
Cls(set, lo, hi) ==
  [t |-> "cls", set |-> set, lo |-> lo, hi |-> hi, g |-> 0, sub |-> <<>>]
Lit(c) == Cls({c}, 1, 1)
Star(set) == Cls(set, 0, Unbounded)
Plus(set) == Cls(set, 1, Unbounded)
Maybe(c) == Cls({c}, 0, 1)
\* (?:sub)?
Opt(sub) == [t |-> "opt", set |-> {}, lo |-> 0, hi |-> 1, g |-> 0, sub |-> sub]
\* the parentheses of capture group g
Open(g) == [t |-> "open", set |-> {}, lo |-> 0, hi |-> 0, g |-> g, sub |-> <<>>]
Close(g) == [t |-> "close", set |-> {}, lo |-> 0, hi |-> 0, g |-> g, sub |-> <<>>]
Group(g, items) == <<Open(g)>> \o items \o <<Close(g)>>

NoMatch == [ok |-> FALSE, caps |-> <<>>]
NoCaptures == [g \in 1..8 |-> <<0, 0>>]

\* One way of matching the items read so far: the position after them and
\* the captures made.
Way(pos, caps) == [pos |-> pos, caps |-> caps]

RECURSIVE Flatten(_)
Flatten(ss) == IF ss = <<>> THEN <<>> ELSE Head(ss) \o Flatten(Tail(ss))

\* Greedy: the longest run first, then shorter ones, down to lo.
Counts(w, lo, k) == [j \in 1..(k - lo + 1) |-> Way(w.pos + k - j + 1, w.caps)]

\* The ways of matching items after each of the ways ws, in the order a
\* backtracking engine tries them: the first one is the engine's answer.
\* The items are matched from left to right, the first half of them and
\* then the second half after the ways the first half leaves.
RECURSIVE Ways(_, _, _), Step(_, _, _)
Ways(items, s, ws) ==
  IF items = <<>> \/ ws = <<>> THEN ws
  ELSE IF Len(items) = 1
  THEN Flatten([i \in 1..Len(ws) |-> Step(items[1], s, ws[i])])
  ELSE Ways(SubSeq(items, Len(items) \div 2 + 1, Len(items)), s,
            Ways(SubSeq(items, 1, Len(items) \div 2), s, ws))

Step(it, s, w) ==
  CASE it.t = "open" -> <<Way(w.pos, [w.caps EXCEPT ![it.g] = <<w.pos, w.pos>>])>>
    [] it.t = "close" -> <<Way(w.pos, [w.caps EXCEPT ![it.g][2] = w.pos])>>
    [] it.t = "opt" -> Ways(it.sub, s, <<w>>) \o <<w>>
    [] it.t = "cls" -> Counts(w, it.lo, Min(it.hi, RunLength(s, w.pos, it.set)))

MatchAt(items, s, pos) == Ways(items, s, <<Way(pos, NoCaptures)>>)

\* Leftmost: the match at the first position that has one.
FirstMatch(found) ==
  IF \A p \in DOMAIN found : found[p] = <<>> THEN NoMatch
  ELSE [ok |-> TRUE,
        caps |-> found[CHOOSE p \in DOMAIN found :
                         /\ found[p] # <<>>
                         /\ \A q \in 1..(p - 1) : found[q] = <<>>][1].caps]

\* String.prototype.match(pattern) for a pattern without the g flag: the
\* pattern is NOT anchored, the match may start anywhere in s.
StringMatch(s, items) ==
  FirstMatch([p \in 1..(Len(s) + 1) |-> MatchAt(items, s, p)])

\* The text of capture group g of a match m of s
Captured(s, m, g) == SubSeq(s, m.caps[g][1], m.caps[g][2] - 1)

\* \d{1,3}(?:\.\d+)?   and   \d{1,2}(?:\.\d+)?
Decimal3 == <<Cls(Digit, 1, 3), Opt(<<Lit("."), Plus(Digit)>>)>>
Decimal2 == <<Cls(Digit, 1, 2), Opt(<<Lit("."), Plus(Digit)>>)>>
Cardinal(g) == Group(g, <<Cls(CardinalClass, 1, 1)>>)
\* \s*,?\s*
OptionalComma == <<Star(WhiteSpace), Maybe(","), Star(WhiteSpace)>>

\* /(\d{1,3}(?:\.\d+)?)°\s*([NSEW])\s*,?\s*(\d{1,3}(?:\.\d+)?)°\s*([NSEW])/i
SymbolPattern1 ==
  Group(1, Decimal3) \o <<Lit(DegSign), Star(WhiteSpace)>> \o Cardinal(2)
    \o OptionalComma
    \o Group(3, Decimal3) \o <<Lit(DegSign), Star(WhiteSpace)>> \o Cardinal(4)

\* /([NSEW])\s*(\d{1,3}(?:\.\d+)?)°\s*,?\s*([NSEW])\s*(\d{1,3}(?:\.\d+)?)°/i
SymbolPattern2 ==
  Cardinal(1) \o <<Star(WhiteSpace)>> \o Group(2, Decimal3) \o <<Lit(DegSign)>>
    \o OptionalComma
    \o Cardinal(3) \o <<Star(WhiteSpace)>> \o Group(4, Decimal3)
    \o <<Lit(DegSign)>>

\* (\d{1,3})°\s*(\d{1,2})'\s*(\d{1,2}(?:\.\d+)?)"?\s*([NSEW])
DmsGroup(g) ==
  Group(g, <<Cls(Digit, 1, 3)>>) \o <<Lit(DegSign), Star(WhiteSpace)>>
    \o Group(g + 1, <<Cls(Digit, 1, 2)>>) \o <<Lit(Apos), Star(WhiteSpace)>>
    \o Group(g + 2, Decimal2) \o <<Maybe(DQuote), Star(WhiteSpace)>>
    \o Cardinal(g + 3)

DmsPattern1 == DmsGroup(1) \o <<Star(WhiteSpace)>> \o DmsGroup(5)
DmsPattern2 == DmsGroup(1) \o OptionalComma \o DmsGroup(5)

\* (\d{1,3})°\s*(\d{1,2}(?:\.\d+)?)'?\s*([NSEW])
DdmGroup(g) ==
  Group(g, <<Cls(Digit, 1, 3)>>) \o <<Lit(DegSign), Star(WhiteSpace)>>
    \o Group(g + 1, Decimal2) \o <<Maybe(Apos), Star(WhiteSpace)>>
    \o Cardinal(g + 2)

DdmPattern1 == DdmGroup(1) \o <<Star(WhiteSpace)>> \o DdmGroup(4)
DdmPattern2 == DdmGroup(1) \o OptionalComma \o DdmGroup(4)

\* ------------------------------------------------------------------------
\* CoordinateParser
\* ------------------------------------------------------------------------
\* The JavaScript null where GeojumpCoordinates is expected.
Null == [null |-> TRUE]

Coordinates(lat, lon) == [lat |-> lat, lon |-> lon]

Num(n) == n * Unit

\* mutant: the poles excluded
isValidLatitude_Exclusive(lat) == lat > Num(0 - 90) /\ lat < Num(90)

isValidLatitude(lat) == lat >= Num(0 - 90) /\ lat <= Num(90)

isValidLongitude(lon) == lon >= Num(0 - 180) /\ lon <= Num(180)

\* the first of two results that is not null
FirstCoordinates(a, b) == IF a # Null THEN a ELSE b

\* mutant: an out-of-range value is clamped to the nearest bound
DecimalFromNumbers_Clamped(lat, lon) ==
  IF isNaN(lat) \/ isNaN(lon) THEN Null
  ELSE Coordinates(
         IF lat > Num(90) THEN Num(90)
         ELSE IF lat < Num(0 - 90) THEN Num(0 - 90) ELSE lat,
         IF lon > Num(180) THEN Num(180)
         ELSE IF lon < Num(0 - 180) THEN Num(0 - 180) ELSE lon)

\* lines 58-66
DecimalFromNumbers(lat, lon) ==
  IF isNaN(lat) \/ isNaN(lon) THEN Null
  ELSE IF ~isValidLatitude(lat) \/ ~isValidLongitude(lon) THEN Null
  ELSE Coordinates(lat, lon)

\* mutant: tokens after the second are ignored
DecimalFromParts_AtLeastTwo(parts) ==
  IF Len(parts) < 2 THEN Null
  ELSE DecimalFromNumbers(parseFloat(parts[1]), parseFloat(parts[2]))

\* lines 51-56
DecimalFromParts(parts) ==
  IF Len(parts) # 2 THEN Null
  ELSE DecimalFromNumbers(parseFloat(parts[1]), parseFloat(parts[2]))

parseDecimalDegrees(input) == DecimalFromParts(Split(CollapseWhiteSpace(input)))

applyDirection(value, direction, isLatitude) ==
  IF isLatitude
  THEN (IF direction = "S" THEN 0 - Abs(value) ELSE Abs(value))
  ELSE (IF direction = "W" THEN 0 - Abs(value) ELSE Abs(value))

\* lines 98-100
SymbolsFromNumbers(lat, lon) ==
  IF ~isNaN(lat) /\ ~isNaN(lon) /\ isValidLatitude(lat) /\ isValidLongitude(lon)
  THEN Coordinates(lat, lon)
  ELSE Null

\* lines 83-96: the captures are (value, direction) pairs in the first
\* pattern and (direction, value) pairs in the second.
SymbolsFromMatch(input, m, latValue, latDir, lonValue, lonDir) ==
  IF ~m.ok THEN Null
  ELSE SymbolsFromNumbers(
         applyDirection(parseFloat(Captured(input, m, latValue)),
                        ToUpperCase(Captured(input, m, latDir)[1]), TRUE),
         applyDirection(parseFloat(Captured(input, m, lonValue)),
                        ToUpperCase(Captured(input, m, lonDir)[1]), FALSE))

\* The loop over the two patterns goes on to the second pattern when the
\* first does not match or its value is not valid.
parseDecimalDegreesWithSymbols(input) ==
  FirstCoordinates(
    SymbolsFromMatch(input, StringMatch(input, SymbolPattern1), 1, 2, 3, 4),
    SymbolsFromMatch(input, StringMatch(input, SymbolPattern2), 2, 1, 4, 3))

dmsToDecimal(degrees, minutes, seconds, direction) ==
  IF degrees < 0 \/ minutes < 0 \/ seconds < 0 \/ minutes >= Num(60)
       \/ seconds >= Num(60)
  THEN NullNumber
  ELSE IF direction = "S" \/ direction = "W"
  THEN 0 - (degrees + minutes \div 60 + seconds \div 3600)
  ELSE degrees + minutes \div 60 + seconds \div 3600

ddmToDecimal(degrees, minutes, direction) ==
  IF degrees < 0 \/ minutes < 0 \/ minutes >= Num(60)
  THEN NullNumber
  ELSE IF direction = "S" \/ direction = "W"
  THEN 0 - (degrees + minutes \div 60)
  ELSE degrees + minutes \div 60

\* lines 147-149 and 183-185: no range validation
BothOrNull(lat, lon) ==
  IF lat # NullNumber /\ lon # NullNumber THEN Coordinates(lat, lon) ELSE Null

DmsFromMatch(input, m) ==
  IF ~m.ok THEN Null
  ELSE BothOrNull(
         dmsToDecimal(parseInt(Captured(input, m, 1)),
                      parseInt(Captured(input, m, 2)),
                      parseFloat(Captured(input, m, 3)),
                      ToUpperCase(Captured(input, m, 4)[1])),
         dmsToDecimal(parseInt(Captured(input, m, 5)),
                      parseInt(Captured(input, m, 6)),
                      parseFloat(Captured(input, m, 7)),
                      ToUpperCase(Captured(input, m, 8)[1])))

parseDegreesMinutesSeconds(input) ==
  FirstCoordinates(DmsFromMatch(input, StringMatch(input, DmsPattern1)),
                   DmsFromMatch(input, StringMatch(input, DmsPattern2)))

\* what a call that throws leaves in place of a value
Thrown == [thrown |-> TRUE]

\* mutant: the match is destructured without the test 'if (match)'
DdmFromMatch_Unguarded(input, m) ==
  IF ~m.ok THEN Thrown
  ELSE BothOrNull(
         ddmToDecimal(parseInt(Captured(input, m, 1)),
                      parseFloat(Captured(input, m, 2)),
                      ToUpperCase(Captured(input, m, 3)[1])),
         ddmToDecimal(parseInt(Captured(input, m, 4)),
                      parseFloat(Captured(input, m, 5)),
                      ToUpperCase(Captured(input, m, 6)[1])))

DdmFromMatch(input, m) ==
  IF ~m.ok THEN Null
  ELSE BothOrNull(
         ddmToDecimal(parseInt(Captured(input, m, 1)),
                      parseFloat(Captured(input, m, 2)),
                      ToUpperCase(Captured(input, m, 3)[1])),
         ddmToDecimal(parseInt(Captured(input, m, 4)),
                      parseFloat(Captured(input, m, 5)),
                      ToUpperCase(Captured(input, m, 6)[1])))

parseDegreesDecimalMinutes(input) ==
  FirstCoordinates(DdmFromMatch(input, StringMatch(input, DdmPattern1)),
                   DdmFromMatch(input, StringMatch(input, DdmPattern2)))

\* lines 15-41, on the trimmed input
ParseTrimmed(trimmed) ==
  FirstCoordinates(parseDecimalDegrees(trimmed),
    FirstCoordinates(parseDecimalDegreesWithSymbols(trimmed),
      FirstCoordinates(parseDegreesMinutesSeconds(trimmed),
                       parseDegreesDecimalMinutes(trimmed))))

\* !input || typeof input !== 'string': the empty string is falsy
parseCoordinates(input) ==
  IF input = <<>> THEN Null ELSE ParseTrimmed(Trim(input))

\* ------------------------------------------------------------------------
\* Formatting
\* ------------------------------------------------------------------------
\* The decimal digits of a natural number
\* The last w decimal digits of n, with zeros on the left where n is shorter
PadText(n, w) == [j \in 1..w |-> DigitChar((n \div Pow10(w - j)) % 10)]

\* The decimal digits of a natural number
NatText(n) == PadText(n, 1 + Cardinality({k \in 1..9 : n >= Pow10(k)}))

\* Number.prototype.toFixed(f), f in 1..6: the sign is kept for every x < 0
\* and the magnitude is rounded half up to f decimals.
toFixed(x, f) ==
  LET q == Unit \div Pow10(f)
      n == (Abs(x) + q \div 2) \div q
  IN (IF x < 0 THEN <<"-">> ELSE <<>>)
       \o NatText(n \div Pow10(f)) \o <<".">> \o PadText(n % Pow10(f), f)

\* Math.floor on a non-negative number
Floor(x) == (x \div Unit) * Unit

\* mutant: zero is given the southern and western letter
getDirection_ZeroSouth(value, isLatitude) ==
  IF isLatitude
  THEN (IF value > 0 THEN "N" ELSE "S")
  ELSE (IF value > 0 THEN "E" ELSE "W")

getDirection(value, isLatitude) ==
  IF isLatitude
  THEN (IF value >= 0 THEN "N" ELSE "S")
  ELSE (IF value >= 0 THEN "E" ELSE "W")

decimalToDMS(decimal, isLatitude) ==
  LET absolute == Abs(decimal)
      degrees == Floor(absolute)
      minutesFloat == (absolute - degrees) * 60
      minutes == Floor(minutesFloat)
      seconds == (minutesFloat - minutes) * 60
      direction == getDirection(decimal, isLatitude)
  IN NatText(degrees \div Unit) \o <<DegSign>> \o NatText(minutes \div Unit)
       \o <<Apos>> \o toFixed(seconds, 2) \o <<DQuote, direction>>

decimalToDDM(decimal, isLatitude) ==
  LET absolute == Abs(decimal)
      degrees == Floor(absolute)
      minutes == (absolute - degrees) * 60
      direction == getDirection(decimal, isLatitude)
  IN NatText(degrees \div Unit) \o <<DegSign>> \o toFixed(minutes, 3)
       \o <<Apos, direction>>

\* ------------------------------------------------------------------------
\* The two conversions in IEEE-754 double arithmetic, bit for bit.  The
\* magnitude of a double is a binary fixed-point number with Point bits
\* after the point, held in Limbs limbs of 16 bits, the least significant
\* first.  Every double met by the conversions of an angle below 4096
\* degrees is a multiple of 2^-66, so nothing is lost by the fixed point.
\* ------------------------------------------------------------------------
Limbs == 6
Point == 68

Pow2(n) ==
  <<1, 2, 4, 8, 16, 32, 64, 128, 256, 512, 1024, 2048, 4096, 8192, 16384,
    32768, 65536>>[n + 1]

Base == Pow2(16)

Nought == [i \in 1..Limbs |-> 0]
\* 2^k * 2^-Point
Bit2(k) == [i \in 1..Limbs |-> IF i = k \div 16 + 1 THEN Pow2(k % 16) ELSE 0]
One == Bit2(Point)

\* the carry out of limb i of the column sums p
RECURSIVE Carry(_, _)
Carry(p, i) == IF i = 0 THEN 0 ELSE (p[i] + Carry(p, i - 1)) \div Base

Normal(p) == [i \in 1..Limbs |-> (p[i] + Carry(p, i - 1)) % Base]
Add(a, b) == Normal([i \in 1..Limbs |-> a[i] + b[i]])
\* a * n for a natural number n
Times(a, n) == Normal([i \in 1..Limbs |-> a[i] * n])

\* long division by a natural number d: the remainder carried into limb i
RECURSIVE Rest(_, _, _)
Rest(a, d, i) ==
  IF i > Limbs THEN 0 ELSE (Rest(a, d, i + 1) * Base + a[i]) % d

Quotient(a, d) ==
  [i \in 1..Limbs |-> (Rest(a, d, i + 1) * Base + a[i]) \div d]
Inexact(a, d) == Rest(a, d, 1) # 0

Less(a, b) ==
  \E i \in 1..Limbs : a[i] < b[i] /\ \A k \in (i + 1)..Limbs : a[k] = b[k]

Bit(a, j) == (a[j \div 16 + 1] \div Pow2(j % 16)) % 2
TopLimb(a) == Cardinality({i \in 1..Limbs : \E k \in i..Limbs : a[k] # 0})
BitLength(a) ==
  IF a = Nought THEN 0
  ELSE 16 * (TopLimb(a) - 1)
         + Cardinality({k \in 0..15 : a[TopLimb(a)] >= Pow2(k)})

\* the bits of a from bit k up, and the bits below bit k
From(a, k) ==
  [i \in 1..Limbs |->
     IF 16 * i <= k THEN 0
     ELSE IF 16 * (i - 1) >= k THEN a[i]
     ELSE (a[i] \div Pow2(k - 16 * (i - 1))) * Pow2(k - 16 * (i - 1))]
Below(a, k) == [i \in 1..Limbs |-> a[i] - From(a, k)[i]]

\* Round to nearest, ties to even, at bit k; sticky: the exact value is
\* above a by less than the last bit of a.
RoundAt(a, sticky, k) ==
  IF k <= 0 THEN a
  ELSE IF Bit(a, k - 1) = 1
            /\ (sticky \/ Below(a, k - 1) # Nought \/ Bit(a, k) = 1)
  THEN Add(From(a, k), Bit2(k))
  ELSE From(a, k)

\* the nearest double: 53 significant bits
Round(a, sticky) == RoundAt(a, sticky, BitLength(a) - 53)

\* the whole part of a magnitude
IntOf(a) ==
  a[Point \div 16 + 1] \div Pow2(Point % 16)
    + a[Point \div 16 + 2] * Pow2(16 - (Point % 16))

\* A double: a sign and a magnitude.
Double(neg, mag) == [neg |-> neg, mag |-> mag]
\* the double of an integer n, and of n / 4
DoubleOf(n) == Double(n < 0, Times(One, IF n < 0 THEN 0 - n ELSE n))
QuarterOf(n) == Double(n < 0, Quotient(DoubleOf(n).mag, 4))

\* x < 0, and x >= n for a natural number n > 0
IsNegative(x) == x.neg /\ x.mag # Nought
AtLeast(x, n) == ~x.neg /\ IntOf(x.mag) >= n

\* x / d for a natural number d, and x + y for x, y >= 0
Over(x, d) == Double(x.neg, Round(Quotient(x.mag, d), Inexact(x.mag, d)))
Sum(x, y) == Double(FALSE, Round(Add(x.mag, y.mag), FALSE))

\* mutant: sixty minutes and sixty seconds are let through
dmsToDecimalDouble_SixtyAllowed(degrees, minutes, seconds, direction) ==
  IF IsNegative(degrees) \/ IsNegative(minutes) \/ IsNegative(seconds)
       \/ AtLeast(minutes, 61) \/ AtLeast(seconds, 61)
  THEN Null
  ELSE IF direction = "S" \/ direction = "W"
  THEN Double(TRUE, Sum(Sum(degrees, Over(minutes, 60)),
                        Over(seconds, 3600)).mag)
  ELSE Sum(Sum(degrees, Over(minutes, 60)), Over(seconds, 3600))

\* dmsToDecimal on doubles
dmsToDecimalDouble(degrees, minutes, seconds, direction) ==
  IF IsNegative(degrees) \/ IsNegative(minutes) \/ IsNegative(seconds)
       \/ AtLeast(minutes, 60) \/ AtLeast(seconds, 60)
  THEN Null
  ELSE IF direction = "S" \/ direction = "W"
  THEN Double(TRUE, Sum(Sum(degrees, Over(minutes, 60)),
                        Over(seconds, 3600)).mag)
  ELSE Sum(Sum(degrees, Over(minutes, 60)), Over(seconds, 3600))

\* toFixed(f) of a magnitude: the nearest multiple of 10^-f to the exact
\* value of the double, the larger one of two
FixedText(n, f) ==
  NatText(n \div Pow10(f)) \o <<".">> \o PadText(n % Pow10(f), f)

toFixedDouble(a, f) ==
  FixedText(IntOf(Add(Times(a, Pow10(f)), Bit2(Point - 1))), f)

\* decimalToDMS on doubles; minutesFloat is the parameter
SecondsText(minutesFloat) ==
  NatText(IntOf(minutesFloat)) \o <<Apos>>
    \o toFixedDouble(Round(Times(Below(minutesFloat, Point), 60), FALSE), 2)

decimalToDMSDouble(decimal, isLatitude) ==
  NatText(IntOf(decimal.mag)) \o <<DegSign>>
    \o SecondsText(Round(Times(Below(decimal.mag, Point), 60), FALSE))
    \o <<DQuote,
         getDirection(IF IsNegative(decimal) THEN 0 - 1 ELSE 0, isLatitude)>>

\* enum CoordinateFormat
DECIMAL_DEGREES == "decimal_degrees"
DEGREES_MINUTES_SECONDS == "degrees_minutes_seconds"
DEGREES_DECIMAL_MINUTES == "degrees_decimal_minutes"
\* a format argument that was not passed: the switch gets undefined
UNSPECIFIED == "undefined"

\* mutant: four decimals instead of six
formatCoordinates_FourPlaces(coordinates, format) ==
  toFixed(coordinates.lat, 4) \o <<",", " ">> \o toFixed(coordinates.lon, 4)

\* mutant: a comma without the space
formatCoordinates_NoSpace(coordinates, format) ==
  CASE format = DEGREES_MINUTES_SECONDS ->
         decimalToDMS(coordinates.lat, TRUE) \o <<" ">>
           \o decimalToDMS(coordinates.lon, FALSE)
    [] format = DEGREES_DECIMAL_MINUTES ->
         decimalToDDM(coordinates.lat, TRUE) \o <<" ">>
           \o decimalToDDM(coordinates.lon, FALSE)
    [] OTHER ->
         toFixed(coordinates.lat, 6) \o <<",">> \o toFixed(coordinates.lon, 6)

\* mutant: an unknown format is rendered as degrees, minutes, seconds
formatCoordinates_DefaultDms(coordinates, format) ==
  CASE format = DECIMAL_DEGREES ->
         toFixed(coordinates.lat, 6) \o <<",", " ">> \o toFixed(coordinates.lon, 6)
    [] format = DEGREES_DECIMAL_MINUTES ->
         decimalToDDM(coordinates.lat, TRUE) \o <<" ">>
           \o decimalToDDM(coordinates.lon, FALSE)
    [] OTHER ->
         decimalToDMS(coordinates.lat, TRUE) \o <<" ">>
           \o decimalToDMS(coordinates.lon, FALSE)

formatCoordinates(coordinates, format) ==
  CASE format = DECIMAL_DEGREES ->
         toFixed(coordinates.lat, 6) \o <<",", " ">> \o toFixed(coordinates.lon, 6)
    [] format = DEGREES_MINUTES_SECONDS ->
         decimalToDMS(coordinates.lat, TRUE) \o <<" ">>
           \o decimalToDMS(coordinates.lon, FALSE)
    [] format = DEGREES_DECIMAL_MINUTES ->
         decimalToDDM(coordinates.lat, TRUE) \o <<" ">>
           \o decimalToDDM(coordinates.lon, FALSE)
    [] OTHER ->
         toFixed(coordinates.lat, 6) \o <<",", " ">> \o toFixed(coordinates.lon, 6)

\* ------------------------------------------------------------------------
\* validateInput
\* ------------------------------------------------------------------------
\* The messages are texts, character by character.
EmptyMessage ==
  <<"P", "l", "e", "a", "s", "e", " ", "e", "n", "t", "e", "r", " ", "c",
    "o", "o", "r", "d", "i", "n", "a", "t", "e", "s">>

\* the three examples the invalid-format message quotes
DecimalExample ==
  <<"3", "7", ".", "7", "7", "3", "9", "7", "2", ",", " ", "-", "1", "2",
    "2", ".", "4", "3", "1", "2", "9", "7">>

SymbolExample ==
  <<"3", "7", ".", "7", "7", "4", "9", DegSign, " ", "N", ",", " ", "1",
    "2", "2", ".", "4", "1", "9", "4", DegSign, " ", "W">>

DmsExample ==
  <<"4", "0", DegSign, "4", "2", Apos, "4", "6", DQuote, "N", " ", "7",
    "4", DegSign, "0", Apos, "2", "1", DQuote, "W">>

Quoted(text) == <<DQuote>> \o text \o <<DQuote>>

\* mutant: the message names no example
InvalidMessage_NoExample ==
  <<"I", "n", "v", "a", "l", "i", "d", " ", "c", "o", "o", "r", "d", "i",
    "n", "a", "t", "e", " ", "f", "o", "r", "m", "a", "t">>

\* 'Invalid coordinate format. Try: "37.773972, -122.431297",
\*  "37.7749° N, 122.4194° W", or "40°42\'46"N 74°0\'21"W"'
InvalidMessage ==
  <<"I", "n", "v", "a", "l", "i", "d", " ", "c", "o", "o", "r", "d", "i",
    "n", "a", "t", "e", " ", "f", "o", "r", "m", "a", "t", ".", " ", "T",
    "r", "y", ":", " ">>
    \o Quoted(DecimalExample) \o <<",", " ">> \o Quoted(SymbolExample)
    \o <<",", " ", "o", "r", " ">> \o Quoted(DmsExample)

\* mutant: only an undefined or empty input gets the empty-input message
validateInput_NoTrim(input) ==
  IF input = <<>>
  THEN [isValid |-> FALSE, error |-> EmptyMessage]
  ELSE IF parseCoordinates(input) = Null
  THEN [isValid |-> FALSE, error |-> InvalidMessage]
  ELSE [isValid |-> TRUE]

\* mutant: only a bare decimal pair is valid
validateInput_DecimalOnly(input) ==
  IF input = <<>> \/ Len(Trim(input)) = 0
  THEN [isValid |-> FALSE, error |-> EmptyMessage]
  ELSE IF parseDecimalDegrees(Trim(input)) = Null
  THEN [isValid |-> FALSE, error |-> InvalidMessage]
  ELSE [isValid |-> TRUE]

validateInput(input) ==
  IF input = <<>> \/ Len(Trim(input)) = 0
  THEN [isValid |-> FALSE, error |-> EmptyMessage]
  ELSE IF parseCoordinates(input) = Null
  THEN [isValid |-> FALSE, error |-> InvalidMessage]
  ELSE [isValid |-> TRUE]

\* ------------------------------------------------------------------------
\* The texts a user types: each is written from a shape, a record of the
\* numbers and letters it spells, so that what the text means is known
\* independently of the parser.
\* ------------------------------------------------------------------------
\* A decimal literal: whole part, fraction in millionths, printed places.
Dec(whole, frac, places) == [whole |-> whole, frac |-> frac, places |-> places]

DecValue(d) == d.whole * Unit + d.frac * Micro

DecText(d) ==
  NatText(d.whole)
    \o (IF d.places = 0 THEN <<>>
        ELSE <<".">> \o SubSeq(PadText(d.frac, 6), 1, d.places))

Zero == Dec(0, 0, 0)

\* One group of a text: an optional minus sign, the number (degrees), the
\* minutes, the seconds, the cardinal letter and trailing non-numeric text.
Grp(neg, num, min, sec, dir, junk) ==
  [neg |-> neg, num |-> num, min |-> min, sec |-> sec, dir |-> dir, junk |-> junk]

Sp(spaced) == IF spaced THEN <<" ">> ELSE <<>>

\* A bare token: -12.5, 12.5abc, abc
BareText(g) ==
  (IF g.neg THEN <<"-">> ELSE <<>>)
    \o (IF g.dir = "word" THEN <<>> ELSE DecText(g.num)) \o g.junk

\* 37.7749°N, 37.7749° N
SymbolText(g, spaced) ==
  (IF g.neg THEN <<"-">> ELSE <<>>) \o DecText(g.num) \o <<DegSign>>
    \o Sp(spaced) \o <<g.dir>>

\* N37.7749°, N 37.7749°
LetterFirstText(g, spaced) ==
  <<g.dir>> \o Sp(spaced) \o (IF g.neg THEN <<"-">> ELSE <<>>)
    \o DecText(g.num) \o <<DegSign>>

\* 40°42'46"N, 40° 42' 46" N
DmsText(g, spaced) ==
  DecText(g.num) \o <<DegSign>> \o Sp(spaced) \o DecText(g.min) \o <<Apos>>
    \o Sp(spaced) \o DecText(g.sec) \o <<DQuote>> \o Sp(spaced) \o <<g.dir>>

\* 40°42.767'N, 40° 42.767' N
DdmText(g, spaced) ==
  DecText(g.num) \o <<DegSign>> \o Sp(spaced) \o DecText(g.min) \o <<Apos>>
    \o Sp(spaced) \o <<g.dir>>

GroupText(kind, g, spaced) ==
  CASE kind = "bare" -> BareText(g)
    [] kind = "symbol" -> SymbolText(g, spaced)
    [] kind = "letterFirst" -> LetterFirstText(g, spaced)
    [] kind = "dms" -> DmsText(g, spaced)
    [] kind = "ddm" -> DdmText(g, spaced)

RECURSIVE Join(_, _, _, _)
Join(kind, groups, spaced, sep) ==
  IF Len(groups) = 1 THEN GroupText(kind, groups[1], spaced)
  ELSE GroupText(kind, groups[1], spaced) \o sep
         \o Join(kind, Tail(groups), spaced, sep)

Shape(kind, groups, spaced, sep, pad) ==
  [kind |-> kind, groups |-> groups, spaced |-> spaced, sep |-> sep, pad |-> pad]

ShapeText(sh) ==
  sh.pad \o Join(sh.kind, sh.groups, sh.spaced, sh.sep) \o sh.pad

NoShape == Shape("none", <<>>, FALSE, <<>>, <<>>)

CommaSpace == <<",", " ">>
OneSpace == <<" ">>
Comma == <<",">>
WideComma == <<" ", " ", ",", " ", " ">>
Tab == <<"\t">>
Nothing == <<>>
Word == <<"a", "b", "c">>

\* -- bare decimal pairs ---------------------------------------------------
BareLat ==
  {Dec(0, 0, 0), Dec(40, 712800, 4), Dec(90, 0, 0), Dec(91, 0, 0),
   Dec(90, 1, 6)}
BareLon ==
  {Dec(0, 0, 0), Dec(74, 6000, 4), Dec(180, 0, 0), Dec(181, 0, 0),
   Dec(180, 1, 6)}

BareGroup(neg, d) == Grp(neg, d, Zero, Zero, "", <<>>)

BarePairs ==
  {Shape("bare", <<BareGroup(n1, a), BareGroup(n2, b)>>, FALSE, sep, pad) :
     n1 \in BOOLEAN, a \in BareLat, n2 \in BOOLEAN, b \in BareLon,
     sep \in {CommaSpace, OneSpace}, pad \in {Nothing}}
  \cup
  {Shape("bare", <<BareGroup(FALSE, a), BareGroup(TRUE, b)>>, FALSE, sep, pad) :
     a \in {Dec(40, 712800, 4), Dec(91, 0, 0)}, b \in {Dec(74, 6000, 4)},
     sep \in {Comma, WideComma, Tab}, pad \in {Nothing, <<" ", " ">>}}

\* tokens that are not, or not only, a number: abc, 40.7128abc
JunkTokens ==
  {Grp(FALSE, Zero, Zero, Zero, "word", Word),
   Grp(FALSE, Dec(40, 712800, 4), Zero, Zero, "", Word),
   Grp(TRUE, Dec(74, 6000, 4), Zero, Zero, "", <<"x">>)}

PlainTokens == {BareGroup(FALSE, Dec(40, 712800, 4)), BareGroup(TRUE, Dec(74, 6000, 4))}

JunkPairs ==
  {Shape("bare", <<a, b>>, FALSE, sep, Nothing) :
     a \in JunkTokens \cup PlainTokens, b \in JunkTokens,
     sep \in {CommaSpace, OneSpace}}
  \cup
  {Shape("bare", <<a, b>>, FALSE, sep, Nothing) :
     a \in JunkTokens, b \in PlainTokens, sep \in {CommaSpace, OneSpace}}

\* one token, three tokens, a stray comma at either end, nothing at all
TokenLists ==
  {Shape("bare", <<a>>, FALSE, Nothing, pad) :
     a \in PlainTokens, pad \in {Nothing, OneSpace, Comma}}
  \cup
  {Shape("bare", <<a, b, c>>, FALSE, sep, Nothing) :
     a \in PlainTokens, b \in PlainTokens, c \in PlainTokens,
     sep \in {CommaSpace, OneSpace}}
  \cup
  {Shape("bare", <<a, b>>, FALSE, sep, Comma) :
     a \in PlainTokens, b \in PlainTokens, sep \in {CommaSpace, OneSpace}}
  \cup
  {Shape("bare", <<Grp(FALSE, Zero, Zero, Zero, "word", <<>>)>>, FALSE, Nothing, pad) :
     pad \in {Nothing, OneSpace}}

\* -- decimal degrees with degree symbol and cardinal letter -----------------
SymbolLat == {Dec(37, 774900, 4), Dec(91, 0, 0)}
SymbolLon == {Dec(122, 419400, 4), Dec(181, 0, 0)}

SymbolGroup(d, dir) == Grp(FALSE, d, Zero, Zero, dir, <<>>)

SymbolPairs ==
  {Shape(kind, <<SymbolGroup(a, d1), SymbolGroup(b, d2)>>, spaced, sep, Nothing) :
     kind \in {"symbol", "letterFirst"},
     a \in SymbolLat, d1 \in {"N", "S", "W", "s"},
     b \in SymbolLon, d2 \in {"E", "W", "S"},
     spaced \in BOOLEAN, sep \in {CommaSpace, OneSpace, Comma}}
  \cup
  \* a minus sign on one of the two numbers: -37.7749° N, 122.4194° W
  {Shape(kind, <<Grp(n1, Dec(37, 774900, 4), Zero, Zero, d1, <<>>),
                 Grp(~n1, Dec(122, 419400, 4), Zero, Zero, "W", <<>>)>>,
         spaced, CommaSpace, Nothing) :
     kind \in {"symbol", "letterFirst"}, n1 \in BOOLEAN, d1 \in {"N", "S"},
     spaced \in BOOLEAN}
  \cup
  \* text around the pair: abc 37.7749° N, 122.4194° W abc
  {Shape(kind, <<SymbolGroup(Dec(37, 774900, 4), "N"),
                 SymbolGroup(Dec(122, 419400, 4), "W")>>,
         spaced, CommaSpace, pad) :
     kind \in {"symbol", "letterFirst"}, spaced \in BOOLEAN,
     pad \in {OneSpace \o Word \o OneSpace, <<"1">>}}

\* -- degrees, minutes, seconds --------------------------------------------
WholeDec(n) == Dec(n, 0, 0)

DmsLat ==
  {Grp(FALSE, WholeDec(deg), WholeDec(min), sec, dir, <<>>) :
     deg \in {40, 95}, min \in {42, 60},
     sec \in {WholeDec(46), Dec(59, 990000, 2), WholeDec(60)}, dir \in {"N", "S"}}
DmsLon ==
  {Grp(FALSE, WholeDec(deg), WholeDec(min), WholeDec(21), dir, <<>>) :
     deg \in {74, 200}, min \in {0, 75}, dir \in {"W", "E"}}

DmsPairs ==
  {Shape("dms", <<a, b>>, spaced, sep, Nothing) :
     a \in DmsLat, b \in DmsLon, spaced \in BOOLEAN,
     sep \in {OneSpace, CommaSpace, Nothing}}
  \cup
  \* the letters of the other axis, and text around the pair
  {Shape("dms", <<Grp(FALSE, WholeDec(40), WholeDec(42), WholeDec(46), d1, <<>>),
                  Grp(FALSE, WholeDec(74), WholeDec(0), WholeDec(21), d2, <<>>)>>,
         spaced, CommaSpace, pad) :
     d1 \in {"N", "E"}, d2 \in {"W", "S"}, spaced \in BOOLEAN,
     pad \in {Nothing, OneSpace \o Word \o OneSpace, <<"1">>}}

\* -- degrees, decimal minutes ---------------------------------------------
DdmLat ==
  {Grp(FALSE, WholeDec(deg), min, Zero, dir, <<>>) :
     deg \in {40, 95}, min \in {Dec(42, 767000, 3), WholeDec(60)},
     dir \in {"N", "S"}}
DdmLon ==
  {Grp(FALSE, WholeDec(deg), min, Zero, dir, <<>>) :
     deg \in {74, 200}, min \in {Dec(0, 350000, 2), Dec(75, 500000, 1)},
     dir \in {"W", "E"}}

DdmPairs ==
  {Shape("ddm", <<a, b>>, spaced, sep, Nothing) :
     a \in DdmLat, b \in DdmLon, spaced \in BOOLEAN,
     sep \in {OneSpace, CommaSpace, Nothing}}
  \cup
  \* the letters of the other axis, and text around the pair
  {Shape("ddm", <<Grp(FALSE, WholeDec(40), Dec(42, 767000, 3), Zero, d1, <<>>),
                  Grp(FALSE, WholeDec(74), Dec(0, 350000, 2), Zero, d2, <<>>)>>,
         spaced, CommaSpace, pad) :
     d1 \in {"N", "E"}, d2 \in {"W", "S"}, spaced \in BOOLEAN,
     pad \in {Nothing, OneSpace \o Word \o OneSpace, <<"1">>}}

Shapes ==
  BarePairs \cup JunkPairs \cup TokenLists \cup SymbolPairs \cup DmsPairs
    \cup DdmPairs

\* -- the coordinates a caller formats -------------------------------------
\* (the last value of each set has more than six decimals)
SampleLat ==
  {Num(0), Num(90), Num(0 - 90), DecValue(Dec(40, 712800, 4)),
   0 - DecValue(Dec(0, 1, 6)), DecValue(Dec(89, 999999, 6)),
   DecValue(Dec(40, 712800, 4)) + 4}
SampleLon ==
  {Num(0), Num(180), Num(0 - 180), 0 - DecValue(Dec(74, 6000, 4)),
   DecValue(Dec(0, 1, 6)), 0 - DecValue(Dec(179, 999999, 6)),
   0 - (DecValue(Dec(74, 6000, 4)) + 5)}

SampleCoordinates == {Coordinates(lat, lon) : lat \in SampleLat, lon \in SampleLon}

Formats ==
  {DECIMAL_DEGREES, DEGREES_MINUTES_SECONDS, DEGREES_DECIMAL_MINUTES, "other",
   UNSPECIFIED}

\* ------------------------------------------------------------------------
\* The state machine: one text-entry session.  A text is typed, or a
\* coordinate is formatted and the output is entered as text; the text is
\* parsed, one notation matcher per step, and then checked by validateInput.
\* ------------------------------------------------------------------------
VARIABLES
  input,         \* the text given to parseCoordinates and validateInput
  shape,         \* how a typed text was written (NoShape for formatted text)
  pc,            \* the position in parseCoordinates
  trimmedInput,  \* parseCoordinates' local
  result,        \* what parseCoordinates returned
  matcher,       \* the matcher whose Coordinates were returned
  validation,    \* what validateInput returned
  coordinates,   \* the argument of formatCoordinates
  format,        \* the format argument of formatCoordinates
  formatted,     \* what formatCoordinates returned
  dmsArguments,  \* the arguments of dmsToDecimal
  converted,     \* what dmsToDecimal returned
  rendered,      \* what decimalToDMS returned for it
  step,          \* the position in the conversion of an angle
  calls          \* the calls made one after the other, with what they returned

session ==
  <<input, shape, pc, trimmedInput, result, matcher, validation, coordinates,
    format, formatted>>

conversion == <<dmsArguments, converted, rendered, step, calls>>

vars ==
  <<input, shape, pc, trimmedInput, result, matcher, validation, coordinates,
    format, formatted, dmsArguments, converted, rendered, step, calls>>

NoArguments == [degrees |-> 0, minutes |-> 0, quarters |-> 0, direction |-> "N"]

NotValidated == [isValid |-> FALSE, error |-> <<>>]

Init ==
  /\ input = <<>>
  /\ shape = NoShape
  /\ pc = "idle"
  /\ trimmedInput = <<>>
  /\ result = Null
  /\ matcher = "none"
  /\ validation = NotValidated
  /\ coordinates = Null
  /\ format = "none"
  /\ formatted = <<>>
  /\ dmsArguments = NoArguments
  /\ converted = Null
  /\ rendered = <<>>
  /\ step = "idle"
  /\ calls = <<>>

\* The user types a text.
Type(sh) ==
  /\ pc = "idle"
  /\ input' = ShapeText(sh)
  /\ shape' = sh
  /\ pc' = "entered"
  /\ UNCHANGED <<trimmedInput, result, matcher, validation, coordinates,
                 format, formatted>>
  /\ UNCHANGED conversion

\* A caller formats a coordinate.
FormatCoordinates(c, f) ==
  /\ pc = "idle"
  /\ coordinates' = c
  /\ format' = f
  /\ formatted' = formatCoordinates(c, f)
  /\ pc' = "formatted"
  /\ UNCHANGED <<input, shape, trimmedInput, result, matcher, validation>>
  /\ UNCHANGED conversion

\* The formatted text is entered as input.
Reenter ==
  /\ pc = "formatted"
  /\ input' = formatted
  /\ pc' = "entered"
  /\ UNCHANGED <<shape, trimmedInput, result, matcher, validation,
                 coordinates, format, formatted>>
  /\ UNCHANGED conversion

\* parseCoordinates, lines 10-15
ParseCoordinates ==
  /\ pc = "entered"
  /\ IF input = <<>>
     THEN /\ pc' = "parsed"
          /\ UNCHANGED trimmedInput
     ELSE /\ trimmedInput' = Trim(input)
          /\ pc' = "decimal"
  /\ UNCHANGED <<input, shape, result, matcher, validation, coordinates,
                 format, formatted>>
  /\ UNCHANGED conversion

\* mutant: the next matcher is tried even after a Coordinate was found
Attempt_LastWins(at, r, next) ==
  /\ pc = at
  /\ IF r # Null
     THEN /\ result' = r
          /\ matcher' = at
     ELSE UNCHANGED <<result, matcher>>
  /\ pc' = next
  /\ UNCHANGED <<input, shape, trimmedInput, validation, coordinates, format,
                 formatted>>
  /\ UNCHANGED conversion

\* One matcher of parseCoordinates: return its Coordinates, or go on.
Attempt(at, r, next) ==
  /\ pc = at
  /\ IF r # Null
     THEN /\ result' = r
          /\ matcher' = at
          /\ pc' = "parsed"
     ELSE /\ pc' = next
          /\ UNCHANGED <<result, matcher>>
  /\ UNCHANGED <<input, shape, trimmedInput, validation, coordinates, format,
                 formatted>>
  /\ UNCHANGED conversion

TryDecimalDegrees ==
  Attempt("decimal", parseDecimalDegrees(trimmedInput), "symbols")

TryDecimalDegreesWithSymbols ==
  Attempt("symbols", parseDecimalDegreesWithSymbols(trimmedInput), "dms")

TryDegreesMinutesSeconds ==
  Attempt("dms", parseDegreesMinutesSeconds(trimmedInput), "ddm")

\* the last matcher: parseCoordinates returns null after it
TryDegreesDecimalMinutes ==
  Attempt("ddm", parseDegreesDecimalMinutes(trimmedInput), "parsed")

ValidateInput ==
  /\ pc = "parsed"
  /\ validation' = validateInput(input)
  /\ pc' = "validated"
  /\ UNCHANGED <<input, shape, trimmedInput, result, matcher, coordinates,
                 format, formatted>>
  /\ UNCHANGED conversion

Next ==
  \/ \E sh \in Shapes : Type(sh)
  \/ \E c \in SampleCoordinates, f \in Formats : FormatCoordinates(c, f)
  \/ Reenter
  \/ ParseCoordinates
  \/ TryDecimalDegrees
  \/ TryDecimalDegreesWithSymbols
  \/ TryDegreesMinutesSeconds
  \/ TryDegreesDecimalMinutes
  \/ ValidateInput

Spec == Init /\ [][Next]_vars

\* ------------------------------------------------------------------------
\* The conversion of an angle: dmsToDecimal is applied to its arguments,
\* and decimalToDMS to the number it returns.  The seconds are given in
\* quarters, which are doubles exactly.
\* ------------------------------------------------------------------------
Degrees == {0 - 1, 0, 1, 40, 179}
Minutes == {0 - 1, 0, 1, 42, 59, 60}
Quarters == {0 - 1, 0, 1, 184, 239, 240}
Directions == {"N", "S", "E", "W"}

ConversionInit ==
  /\ input = <<>>
  /\ shape = NoShape
  /\ pc = "idle"
  /\ trimmedInput = <<>>
  /\ result = Null
  /\ matcher = "none"
  /\ validation = NotValidated
  /\ coordinates = Null
  /\ format = "none"
  /\ formatted = <<>>
  /\ dmsArguments \in [degrees : Degrees, minutes : Minutes,
                        quarters : Quarters, direction : Directions]
  /\ converted = Null
  /\ rendered = <<>>
  /\ step = "given"
  /\ calls = <<>>

DmsToDecimal ==
  /\ step = "given"
  /\ converted' = dmsToDecimalDouble(DoubleOf(dmsArguments.degrees),
                                     DoubleOf(dmsArguments.minutes),
                                     QuarterOf(dmsArguments.quarters),
                                     dmsArguments.direction)
  /\ step' = "converted"
  /\ UNCHANGED <<dmsArguments, rendered, calls>>
  /\ UNCHANGED session

DecimalToDMS ==
  /\ step = "converted"
  /\ converted # Null
  /\ rendered' = decimalToDMSDouble(converted,
                                    dmsArguments.direction \in {"N", "S"})
  /\ step' = "rendered"
  /\ UNCHANGED <<dmsArguments, converted, calls>>
  /\ UNCHANGED session

ConversionNext ==
  \/ DmsToDecimal
  \/ DecimalToDMS

ConversionSpec == ConversionInit /\ [][ConversionNext]_vars

\* ------------------------------------------------------------------------
\* Calls made one after the other.  JavaScript runs a call to its return
\* before the next one starts, so a call is one step; the class has static
\* methods only and no field, and its patterns are literals created in
\* each call, so a call leaves nothing behind but what it returns.
\* ------------------------------------------------------------------------
MaxCalls == 3

CallTexts ==
  {<<"a", "b", "c", ",", " ", "a", "b", "c">>,
   <<"4", "0", ".", "7", "1", "2", "8", ",", " ", "-", "7", "4", ".", "0",
     "0", "6", "0">>,
   <<"3", "7", ".", "7", "7", "4", "9", DegSign, " ", "N", ",", " ", "1", "2",
     "2", ".", "4", "1", "9", "4", DegSign, " ", "W">>}

CallCoordinates == {Coordinates(DecValue(Dec(40, 712800, 4)),
                                0 - DecValue(Dec(74, 6000, 4)))}

CallFormats == {DECIMAL_DEGREES, DEGREES_MINUTES_SECONDS}

Call(op, arguments, value) ==
  [op |-> op, arguments |-> arguments, value |-> value]

\* mutant: the last Coordinate parsed is kept and returned again
CallParse_Remembering(t) ==
  /\ Len(calls) < MaxCalls
  /\ calls' =
       Append(calls,
              Call("parseCoordinates", <<t>>,
                   IF \E i \in 1..Len(calls) :
                        calls[i].op = "parseCoordinates" /\ calls[i].value # Null
                   THEN calls[CHOOSE i \in 1..Len(calls) :
                                calls[i].op = "parseCoordinates"
                                  /\ calls[i].value # Null].value
                   ELSE parseCoordinates(t)))
  /\ UNCHANGED <<dmsArguments, converted, rendered, step>>
  /\ UNCHANGED session

CallParse(t) ==
  /\ Len(calls) < MaxCalls
  /\ calls' = Append(calls, Call("parseCoordinates", <<t>>, parseCoordinates(t)))
  /\ UNCHANGED <<dmsArguments, converted, rendered, step>>
  /\ UNCHANGED session

CallValidate(t) ==
  /\ Len(calls) < MaxCalls
  /\ calls' = Append(calls, Call("validateInput", <<t>>, validateInput(t)))
  /\ UNCHANGED <<dmsArguments, converted, rendered, step>>
  /\ UNCHANGED session

CallFormat(c, f) ==
  /\ Len(calls) < MaxCalls
  /\ calls' = Append(calls, Call("formatCoordinates", <<c, f>>,
                                 formatCoordinates(c, f)))
  /\ UNCHANGED <<dmsArguments, converted, rendered, step>>
  /\ UNCHANGED session

CallsNext ==
  \/ \E t \in CallTexts : CallParse(t)
  \/ \E t \in CallTexts : CallValidate(t)
  \/ \E c \in CallCoordinates, f \in CallFormats : CallFormat(c, f)

CallsSpec == Init /\ [][CallsNext]_vars

\* ------------------------------------------------------------------------
\* What a typed text means, read off its shape
\* ------------------------------------------------------------------------
Parsed == pc \in {"parsed", "validated"}

OnlyWhiteSpace(t) == \A i \in 1..Len(t) : t[i] \in WhiteSpace

\* the sign a cardinal letter stands for
Southern(dir) == dir \in {"S", "s", "W", "w"}

Signed1(neg, v) == IF neg THEN 0 - v ELSE v

\* the number a bare token writes
TokenValue(g) == Signed1(g.neg, DecValue(g.num))

\* the token is a number and nothing else
IsNumberToken(g) == g.dir # "word" /\ g.junk = <<>>

\* degrees + minutes/60 + seconds/3600, negated for S and W
AngleValue(g) ==
  Signed1(Southern(g.dir),
          DecValue(g.num) + DecValue(g.min) \div 60 + DecValue(g.sec) \div 3600)

SubMinuteOk(g) == DecValue(g.min) < 60 * Unit /\ DecValue(g.sec) < 60 * Unit

LatInRange(v) == 0 - 90 * Unit <= v /\ v <= 90 * Unit
LonInRange(v) == 0 - 180 * Unit <= v /\ v <= 180 * Unit

\* two numbers, separated by a comma and/or white space
BarePair ==
  /\ shape.kind = "bare"
  /\ Len(shape.groups) = 2
  /\ \A i \in 1..2 : IsNumberToken(shape.groups[i])
  /\ OnlyWhiteSpace(shape.pad)

\* numbers and separators only
NumbersOnly ==
  /\ shape.kind = "bare"
  /\ \A i \in 1..Len(shape.groups) : IsNumberToken(shape.groups[i])

\* a DMS, DDM or symbol text whose first group carries N or S and whose
\* second group carries E or W
Angles(kinds) ==
  /\ shape.kind \in kinds
  /\ shape.groups[1].dir \in {"N", "S", "n", "s"}
  /\ shape.groups[2].dir \in {"E", "W", "e", "w"}

AnglesInRange ==
  /\ LatInRange(AngleValue(shape.groups[1]))
  /\ LonInRange(AngleValue(shape.groups[2]))

\* ------------------------------------------------------------------------
\* Claims
\* ------------------------------------------------------------------------
\* C1: every Coordinate parseCoordinates returns, whichever matcher
\* produced it, has -90 <= lat <= 90 and -180 <= lon <= 180.
C1_ResultInRange ==
  (Parsed /\ result # Null) => LatInRange(result.lat) /\ LonInRange(result.lon)

\* C2: a text of two DMS groups joined by white space, with minutes and
\* seconds below 60, parses to degrees + minutes/60 + seconds/3600 for each
\* group, negated for S and W.
C2_DmsValue ==
  (/\ Parsed
   /\ Angles({"dms"})
   /\ shape.sep # <<>> /\ OnlyWhiteSpace(shape.sep)
   /\ \A i \in 1..2 : SubMinuteOk(shape.groups[i])
   /\ AnglesInRange)
  => result = Coordinates(AngleValue(shape.groups[1]), AngleValue(shape.groups[2]))

\* C3: a text of two DDM groups joined by white space, with minutes below
\* 60, parses to degrees + minutes/60 for each group, negated for S and W.
C3_DdmValue ==
  (/\ Parsed
   /\ Angles({"ddm"})
   /\ shape.sep # <<>> /\ OnlyWhiteSpace(shape.sep)
   /\ \A i \in 1..2 : SubMinuteOk(shape.groups[i])
   /\ AnglesInRange)
  => result = Coordinates(AngleValue(shape.groups[1]), AngleValue(shape.groups[2]))

\* C4: in decimal degrees written with a degree symbol and a cardinal
\* letter on each value, the letter gives the sign of the parsed value: S
\* and W negate the magnitude, N and E leave it positive.
C4_CardinalSign ==
  (/\ Parsed
   /\ Angles({"symbol", "letterFirst"})
   /\ AnglesInRange
   /\ result # Null)
  => result = Coordinates(AngleValue(shape.groups[1]), AngleValue(shape.groups[2]))

\* C5: a bare pair of numbers a, b parses to exactly {lat: a, lon: b} if
\* -90 <= a <= 90 and -180 <= b <= 180, bounds included, and fails
\* otherwise; nothing is clamped.
C5_BarePairIffInRange ==
  (Parsed /\ BarePair)
  => result =
       (IF LatInRange(TokenValue(shape.groups[1]))
             /\ LonInRange(TokenValue(shape.groups[2]))
        THEN Coordinates(TokenValue(shape.groups[1]), TokenValue(shape.groups[2]))
        ELSE Null)

\* the pole and the antimeridian are parsed as written
C5_Witness ==
  /\ Parsed /\ BarePair
  /\ TokenValue(shape.groups[1]) = 90 * Unit
  /\ TokenValue(shape.groups[2]) = 0 - 180 * Unit
  /\ result = Coordinates(90 * Unit, 0 - 180 * Unit)

\* C6: a DMS or DDM text in which a group's minutes or seconds are 60 or
\* more never parses to a Coordinate.
C6_SubMinuteRejected ==
  (/\ Parsed
   /\ shape.kind \in {"dms", "ddm"}
   /\ \E i \in 1..2 : ~SubMinuteOk(shape.groups[i]))
  => result = Null

\* C7: the bare decimal matcher accepts a text only when each of its two
\* tokens, taken in its entirety, is a number.
C7_WholeTokenIsNumber ==
  (Parsed /\ matcher = "decimal" /\ shape # NoShape) => NumbersOnly

\* C8: a Coordinate with at most six decimals, formatted as decimal
\* degrees and parsed again, comes back unchanged.
C8_RoundTrip ==
  (/\ Parsed
   /\ format = DECIMAL_DEGREES
   /\ coordinates.lat % Micro = 0
   /\ coordinates.lon % Micro = 0)
  => result = coordinates

C8_Witness ==
  /\ Parsed
  /\ format = DECIMAL_DEGREES
  /\ coordinates = Coordinates(DecValue(Dec(89, 999999, 6)),
                               0 - DecValue(Dec(74, 6000, 4)))
  /\ input = <<"8", "9", ".", "9", "9", "9", "9", "9", "9", ",", " ",
               "-", "7", "4", ".", "0", "0", "6", "0", "0", "0">>
  /\ result = coordinates

\* a text whose notation is recognised and whose value is out of range
OutOfRangeText ==
  \/ /\ BarePair
     /\ ~(LatInRange(TokenValue(shape.groups[1]))
            /\ LonInRange(TokenValue(shape.groups[2])))
  \/ /\ Angles({"symbol", "letterFirst", "dms", "ddm"})
     /\ \A i \in 1..2 : SubMinuteOk(shape.groups[i])
     /\ ~AnglesInRange

\* what validateInput returns for a text that matches no notation
UnrecognizedFailure == [isValid |-> FALSE, error |-> InvalidMessage]

C10_ExactlyTwoTokens ==
  (Parsed /\ NumbersOnly /\ result # Null) => Len(shape.groups) = 2

C10_Witness ==
  /\ Parsed /\ NumbersOnly
  /\ Len(shape.groups) = 1
  /\ input = <<"4", "0", ".", "7", "1", "2", "8">>
  /\ result = Null

\* a comma and/or white space: spaces, a tab, a comma, a comma with spaces
\* around it
CommaOrWhiteSpace(sep) ==
  /\ sep # <<>>
  /\ \A i \in 1..Len(sep) : sep[i] \in Separator
  /\ Cardinality({i \in 1..Len(sep) : sep[i] = ","}) <= 1

\* the same groups written in one fixed way
Respelled(spaced, sep) == ShapeText(Shape(shape.kind, shape.groups, spaced, sep, Nothing))

\* C11: the result for a bare pair of numbers does not depend on the white
\* space around the text nor on the separator between the numbers (spaces,
\* a tab, a comma, a comma with spaces around it): it is the result for the
\* same two numbers with a single comma between them.
C11_SeparatorIndependent ==
  (Parsed /\ BarePair /\ CommaOrWhiteSpace(shape.sep))
  => result = parseCoordinates(Respelled(FALSE, Comma))

C11_Witness ==
  /\ Parsed /\ BarePair
  /\ shape.sep = WideComma
  /\ shape.pad = <<" ", " ">>
  /\ input # Respelled(FALSE, Comma)
  /\ result = Coordinates(DecValue(Dec(40, 712800, 4)), 0 - DecValue(Dec(74, 6000, 4)))
  /\ result = parseCoordinates(Respelled(FALSE, Comma))

\* C12: a DMS or DDM text with valid groups parses to the same result
\* whether it is written compactly or with white space after the degree,
\* minute and second marks and a comma between the two groups.
C12_SpacingIndependent ==
  (/\ Parsed
   /\ Angles({"dms", "ddm"})
   /\ \A i \in 1..2 : SubMinuteOk(shape.groups[i])
   /\ AnglesInRange
   /\ shape.sep \in {OneSpace, CommaSpace})
  => result = parseCoordinates(Respelled(TRUE, CommaSpace))

\* validateInput has reported a failure
Rejected == pc = "validated" /\ ~validation.isValid

\* needle occurs in hay
Contains(hay, needle) ==
  \E i \in 1..(Len(hay) - Len(needle) + 1) :
    SubSeq(hay, i, i + Len(needle) - 1) = needle

\* the message quotes a text that is a bare decimal pair
NamesDecimalExample(message) ==
  /\ Contains(message, Quoted(DecimalExample))
  /\ parseDecimalDegrees(DecimalExample) # Null

\* C13 as stated: every failure validateInput reports carries a message
\* that includes a concrete example of the decimal-degrees form.
C13_FailureNamesExample == Rejected => NamesDecimalExample(validation.error)

\* C13 amended: the message of a failure includes the decimal-degrees
\* example when the text has a character that is not white space; for an
\* empty or white-space-only text the message is 'Please enter
\* coordinates', which includes no example.
C13_ExampleUnlessEmpty ==
  Rejected
  => IF OnlyWhiteSpace(input)
     THEN validation.error = EmptyMessage /\ ~NamesDecimalExample(validation.error)
     ELSE NamesDecimalExample(validation.error)

C13_Witness ==
  /\ Rejected
  /\ input = <<"a", "b", "c", ",", " ", "a", "b", "c">>
  /\ validation.error = InvalidMessage
  /\ NamesDecimalExample(validation.error)

\* C14: validateInput answers invalid with 'Please enter coordinates' for
\* the empty text and for a text of white space only, whatever the
\* matchers make of it, and for no other text.
C14_EmptyMessageIffBlank ==
  pc = "validated"
  => IF OnlyWhiteSpace(input)
     THEN validation = [isValid |-> FALSE, error |-> EmptyMessage]
     ELSE validation.isValid \/ validation.error # EmptyMessage

C14_Witness ==
  /\ pc = "validated"
  /\ input = <<" ", " ">>
  /\ validation = [isValid |-> FALSE, error |-> EmptyMessage]

\* C15: validateInput answers valid, without an error, exactly when
\* parseCoordinates returned a Coordinate for the text, and invalid with a
\* message otherwise.
C15_ValidIffParsed ==
  pc = "validated"
  => IF result # Null
     THEN validation = [isValid |-> TRUE]
     ELSE /\ ~validation.isValid
          /\ DOMAIN validation = {"isValid", "error"}
          /\ validation.error # <<>>

C15_Witness ==
  /\ pc = "validated"
  /\ matcher = "dms"
  /\ result # Null
  /\ validation = [isValid |-> TRUE]

\* ------------------------------------------------------------------------
\* What a formatted text says, read off its characters
\* ------------------------------------------------------------------------
\* formatCoordinates has been called
Formatted == format # "none"

AllDigits(t) == t # <<>> /\ \A i \in 1..Len(t) : t[i] \in Digit

\* t is digits, a point and exactly n digits
Places(t, n) ==
  /\ Len(t) >= n + 2
  /\ AllDigits(SubSeq(t, 1, Len(t) - n - 1))
  /\ t[Len(t) - n] = "."
  /\ AllDigits(SubSeq(t, Len(t) - n + 1, Len(t)))

\* the first index of character c in t, 0 when there is none
IndexOf(t, c) ==
  IF \A i \in 1..Len(t) : t[i] # c THEN 0
  ELSE CHOOSE i \in 1..Len(t) : t[i] = c /\ \A j \in 1..(i - 1) : t[j] # c

Count(t, c) == Cardinality({i \in 1..Len(t) : t[i] = c})

\* v rounded to millionths, half away from zero
Round6(v) == Signed1(v < 0, ((Abs(v) + Micro \div 2) \div Micro) * Micro)

\* t writes v with exactly six decimals and a minus sign when v < 0
SixPlaces(t, v) ==
  /\ t # <<>>
  /\ (t[1] = "-") = (v < 0)
  /\ Places(IF t[1] = "-" THEN Tail(t) ELSE t, 6)
  /\ parseFloat(t) = Round6(v)

\* the cardinal letter of v: N or E from zero up, S or W below
Letter(v, isLat) ==
  IF isLat THEN (IF v < 0 THEN "S" ELSE "N") ELSE (IF v < 0 THEN "W" ELSE "E")

WholeDegrees(v) == Abs(v) \div Unit
\* (|v| - degrees) * 60, in units of a minute
MinutesOf(v) == (Abs(v) - WholeDegrees(v) * Unit) * 60
WholeMinutes(v) == MinutesOf(v) \div Unit
\* the fraction of a minute that remains, times 60, in units of a second
SecondsOf(v) == (MinutesOf(v) - WholeMinutes(v) * Unit) * 60

\* t is <degrees>°<minutes>'<seconds>"<letter> for v, seconds with two
\* decimals and within half a hundredth of the exact value
DmsMeans(t, v, isLat) ==
  LET iDeg == IndexOf(t, DegSign)
      iMin == IndexOf(t, Apos)
      iSec == IndexOf(t, DQuote)
  IN /\ 1 < iDeg /\ iDeg + 1 < iMin /\ iMin + 1 < iSec /\ iSec + 1 = Len(t)
     /\ AllDigits(SubSeq(t, 1, iDeg - 1))
     /\ parseInt(SubSeq(t, 1, iDeg - 1)) = WholeDegrees(v) * Unit
     /\ AllDigits(SubSeq(t, iDeg + 1, iMin - 1))
     /\ parseInt(SubSeq(t, iDeg + 1, iMin - 1)) = WholeMinutes(v) * Unit
     /\ Places(SubSeq(t, iMin + 1, iSec - 1), 2)
     /\ Abs(parseFloat(SubSeq(t, iMin + 1, iSec - 1)) - SecondsOf(v))
          <= Unit \div 200
     /\ t[Len(t)] = Letter(v, isLat)

\* t is <degrees>°<minutes>'<letter> for v, minutes with three decimals and
\* within half a thousandth of the exact value
DdmMeans(t, v, isLat) ==
  LET iDeg == IndexOf(t, DegSign)
      iMin == IndexOf(t, Apos)
  IN /\ 1 < iDeg /\ iDeg + 1 < iMin /\ iMin + 1 = Len(t)
     /\ AllDigits(SubSeq(t, 1, iDeg - 1))
     /\ parseInt(SubSeq(t, 1, iDeg - 1)) = WholeDegrees(v) * Unit
     /\ Places(SubSeq(t, iDeg + 1, iMin - 1), 3)
     /\ Abs(parseFloat(SubSeq(t, iDeg + 1, iMin - 1)) - MinutesOf(v))
          <= Unit \div 2000
     /\ t[Len(t)] = Letter(v, isLat)

\* C16: formatted as decimal degrees, a Coordinate is its latitude with
\* exactly six decimals, a comma and one space, its longitude with exactly
\* six decimals; no cardinal letter, no degree sign.
C16_DecimalDegreesText ==
  (Formatted /\ format = DECIMAL_DEGREES)
  => /\ Count(formatted, ",") = 1 /\ Count(formatted, " ") = 1
     /\ IndexOf(formatted, " ") = IndexOf(formatted, ",") + 1
     /\ SixPlaces(SubSeq(formatted, 1, IndexOf(formatted, ",") - 1),
                  coordinates.lat)
     /\ SixPlaces(SubSeq(formatted, IndexOf(formatted, " ") + 1, Len(formatted)),
                  coordinates.lon)
     /\ \A i \in 1..Len(formatted) :
          formatted[i] \notin CardinalClass \cup {DegSign}

C16_Witness ==
  /\ format = DECIMAL_DEGREES
  /\ coordinates = Coordinates(DecValue(Dec(40, 712800, 4)),
                               0 - DecValue(Dec(74, 6000, 4)))
  /\ formatted = <<"4", "0", ".", "7", "1", "2", "8", "0", "0", ",", " ",
                   "-", "7", "4", ".", "0", "0", "6", "0", "0", "0">>

\* C17: formatted as DMS or DDM, each value v is rendered from |v|:
\* degrees = floor(|v|), for DMS minutes = floor((|v| - degrees) * 60) and
\* seconds = the rest of the minute times 60 with two decimals, for DDM
\* minutes = (|v| - degrees) * 60 with three decimals; then N or E when
\* v >= 0 and S or W when v < 0; the latitude group, one space, the
\* longitude group.
C17_AngleText ==
  (Formatted /\ format \in {DEGREES_MINUTES_SECONDS, DEGREES_DECIMAL_MINUTES})
  => /\ Count(formatted, " ") = 1
     /\ IF format = DEGREES_MINUTES_SECONDS
        THEN /\ DmsMeans(SubSeq(formatted, 1, IndexOf(formatted, " ") - 1),
                         coordinates.lat, TRUE)
             /\ DmsMeans(SubSeq(formatted, IndexOf(formatted, " ") + 1,
                                Len(formatted)),
                         coordinates.lon, FALSE)
        ELSE /\ DdmMeans(SubSeq(formatted, 1, IndexOf(formatted, " ") - 1),
                         coordinates.lat, TRUE)
             /\ DdmMeans(SubSeq(formatted, IndexOf(formatted, " ") + 1,
                                Len(formatted)),
                         coordinates.lon, FALSE)

\* zero is north, a negative longitude is west
C17_Witness ==
  /\ format = DEGREES_MINUTES_SECONDS
  /\ coordinates = Coordinates(0, 0 - DecValue(Dec(74, 6000, 4)))
  /\ formatted = <<"0", DegSign, "0", Apos, "0", ".", "0", "0", DQuote, "N",
                   " ", "7", "4", DegSign, "0", Apos, "2", "1", ".", "6",
                   "0", DQuote, "W">>

\* ------------------------------------------------------------------------
\* The conversion of an angle
\* ------------------------------------------------------------------------
\* dmsToDecimal has returned
Converted == step \in {"converted", "rendered"}

\* degrees < 0 or minutes < 0 or seconds < 0 or minutes >= 60 or
\* seconds >= 60, for seconds given in quarters
OutOfRange(a) ==
  \/ a.degrees < 0 \/ a.minutes < 0 \/ a.quarters < 0
  \/ a.minutes >= 60 \/ a.quarters >= 4 * 60

\* degrees + minutes/60 + seconds/3600 as one quotient of natural numbers,
\* cut at 2^-Point
ExactAngle(a) ==
  Quotient(Times(One, a.degrees * 14400 + a.minutes * 240 + a.quarters), 14400)

\* two magnitudes less than 2^-40 apart
Near(a, b) ==
  /\ Less(a, Add(b, Bit2(Point - 40)))
  /\ Less(b, Add(a, Bit2(Point - 40)))

\* C18: dmsToDecimal returns null if and only if degrees < 0 or minutes < 0
\* or seconds < 0 or minutes >= 60 or seconds >= 60; otherwise it returns
\* degrees + minutes/60 + seconds/3600, negated exactly when the direction
\* is S or W.
C18_DmsToDecimal ==
  Converted
  => IF OutOfRange(dmsArguments)
     THEN converted = Null
     ELSE /\ converted # Null
          /\ converted.neg = (dmsArguments.direction \in {"S", "W"})
          /\ Near(converted.mag, ExactAngle(dmsArguments))

C18_Witness ==
  /\ step = "converted"
  /\ dmsArguments = [degrees |-> 40, minutes |-> 42, quarters |-> 184,
                     direction |-> "W"]
  /\ converted # Null
  /\ converted.neg
  /\ IntOf(converted.mag) = 40

\* the rendered text gives back the degrees and minutes of the arguments,
\* and their seconds to half a hundredth
Recovered(t, a) ==
  LET iDeg == IndexOf(t, DegSign)
      iMin == IndexOf(t, Apos)
      iSec == IndexOf(t, DQuote)
  IN /\ 1 < iDeg /\ iDeg + 1 < iMin /\ iMin + 1 < iSec
     /\ parseInt(SubSeq(t, 1, iDeg - 1)) = Num(a.degrees)
     /\ parseInt(SubSeq(t, iDeg + 1, iMin - 1)) = Num(a.minutes)
     /\ Abs(parseFloat(SubSeq(t, iMin + 1, iSec - 1))
              - a.quarters * (Unit \div 4))
          <= Unit \div 200

\* C19: for valid arguments with degrees in 0..179 and minutes, seconds in
\* [0, 60), dmsToDecimal and then decimalToDMS on its result give back the
\* degrees, the minutes and, to two decimals, the seconds.
C19_RoundTrip ==
  (/\ step = "rendered"
   /\ dmsArguments.degrees \in 0..179
   /\ ~OutOfRange(dmsArguments))
  => Recovered(rendered, dmsArguments)

\* C20: for a format that is none of the three, the unspecified one
\* included, formatCoordinates returns the decimal-degrees text.
C20_UnknownFormatIsDecimal ==
  (/\ Formatted
   /\ format \notin {DECIMAL_DEGREES, DEGREES_MINUTES_SECONDS,
                     DEGREES_DECIMAL_MINUTES})
  => formatted = formatCoordinates(coordinates, DECIMAL_DEGREES)

C20_Witness ==
  /\ format = UNSPECIFIED
  /\ coordinates = Coordinates(0 - 90 * Unit, 180 * Unit)
  /\ formatted = <<"-", "9", "0", ".", "0", "0", "0", "0", "0", "0", ",",
                   " ", "1", "8", "0", ".", "0", "0", "0", "0", "0", "0">>

\* ------------------------------------------------------------------------
\* Calls return
\* ------------------------------------------------------------------------
\* a Coordinate: a latitude and a longitude, both numbers
IsCoordinates(r) == DOMAIN r = {"lat", "lon"} /\ r.lat \in Int /\ r.lon \in Int

\* what parseCoordinates may return: null or a Coordinate
Explicit(r) == r = Null \/ IsCoordinates(r)

\* what validateInput may return: a verdict, with a message exactly when
\* the verdict is no
Verdict(v) ==
  /\ "isValid" \in DOMAIN v
  /\ v.isValid \in BOOLEAN
  /\ v.isValid = ("error" \notin DOMAIN v)

\* the positions of a call that has not returned, and the number of
\* statements a call has left at most
Running == {"entered", "decimal", "symbols", "dms", "ddm", "parsed"}

Remaining(p) ==
  CASE p = "entered" -> 6
    [] p = "decimal" -> 5
    [] p = "symbols" -> 4
    [] p = "dms" -> 3
    [] p = "ddm" -> 2
    [] p = "parsed" -> 1
    [] p = "validated" -> 0
    [] OTHER -> 7

\* the statement a call is about to run yields a value, and what has been
\* returned is a value
YieldsValue ==
  /\ pc = "decimal" => Explicit(parseDecimalDegrees(trimmedInput))
  /\ pc = "symbols" => Explicit(parseDecimalDegreesWithSymbols(trimmedInput))
  /\ pc = "dms" => Explicit(parseDegreesMinutesSeconds(trimmedInput))
  /\ pc = "ddm" => Explicit(parseDegreesDecimalMinutes(trimmedInput))
  /\ pc = "parsed" => Explicit(result) /\ Verdict(validateInput(input))
  /\ pc = "validated" => Explicit(result) /\ Verdict(validation)

\* a step of a call leaves fewer statements to run
FewerRemain == pc \in Running => Remaining(pc') < Remaining(pc)

\* C21: for every text, parseCoordinates and validateInput come to an end
\* and return a value, a Coordinate or a failure; no text makes them throw:
\* every statement of a call yields a value, and every step of a call
\* leaves fewer statements to run.
C21_CallsReturn == []YieldsValue /\ [][FewerRemain]_vars

\* a text that matches no notation has gone through the four matchers
C21_Witness ==
  /\ pc = "validated"
  /\ input = Word \o CommaSpace \o Word
  /\ result = Null
  /\ validation = UnrecognizedFailure

Matchers == <<"decimal", "symbols", "dms", "ddm">>

\* what one matcher returns for a trimmed text
MatcherResult(m, trimmed) ==
  CASE m = "decimal" -> parseDecimalDegrees(trimmed)
    [] m = "symbols" -> parseDecimalDegreesWithSymbols(trimmed)
    [] m = "dms" -> parseDegreesMinutesSeconds(trimmed)
    [] m = "ddm" -> parseDegreesDecimalMinutes(trimmed)

\* the results of the four matchers, in the order of the code
AllResults(trimmed) == [k \in 1..4 |-> MatcherResult(Matchers[k], trimmed)]

\* C23: at most one of the four matchers accepts any given text, so the
\* result of parseCoordinates does not depend on the order in which they
\* are tried.
C23_AtMostOneMatcher ==
  (Parsed /\ shape # NoShape)
  => Cardinality({k \in 1..4 : AllResults(trimmedInput)[k] # Null}) <= 1

\* the place of a matcher in the order of the code
Place(m) == CHOOSE k \in 1..4 : Matchers[k] = m

\* every matcher before the k-th returns null for the trimmed text
NoneBefore(k, trimmed) ==
  \A j \in 1..(k - 1) : MatcherResult(Matchers[j], trimmed) = Null

\* C24: parseCoordinates tries the matchers in the order bare decimal,
\* decimal with symbols, DMS, DDM: a matcher is tried only after every
\* earlier one returned null, the result is that of the first matcher that
\* returns a Coordinate, and it is null only when all four return null.
C24_FixedOrder ==
  /\ pc \in {"symbols", "dms", "ddm"} => NoneBefore(Place(pc), trimmedInput)
  /\ (Parsed /\ input # <<>>)
     => IF matcher = "none"
        THEN result = Null /\ NoneBefore(5, trimmedInput)
        ELSE /\ result # Null
             /\ result = MatcherResult(matcher, trimmedInput)
             /\ NoneBefore(Place(matcher), trimmedInput)

\* a text that only the last matcher accepts
C24_Witness ==
  /\ pc = "parsed"
  /\ matcher = "ddm"
  /\ result # Null
  /\ NoneBefore(4, trimmedInput)

\* ------------------------------------------------------------------------
\* Decimal degrees with symbols
\* ------------------------------------------------------------------------
\* C25: when a value of a decimal-degrees-with-symbol text carries both a
\* minus sign and a cardinal letter, the minus sign is discarded and the
\* sign of the parsed value comes from the letter alone: -37.7749° with N
\* parses to +37.7749, with S to -37.7749.
C25_MinusSignDiscarded ==
  (/\ Parsed
   /\ Angles({"symbol", "letterFirst"})
   /\ \E i \in 1..2 : shape.groups[i].neg
   /\ AnglesInRange)
  => result = Coordinates(AngleValue(shape.groups[1]), AngleValue(shape.groups[2]))

\* the typed text with its groups written in the given arrangement
Rearranged(kind, spaced) ==
  ShapeText(Shape(kind, shape.groups, spaced, shape.sep, shape.pad))

\* C26: the number-first form '<a>° <C1>, <b>° <C2>' and the letter-first
\* form '<C1> <a>°, <C2> <b>°', each with or without the space next to the
\* letter, are accepted and parse to the same Coordinate, for every pair
\* of magnitudes in range and every pair of cardinal letters.
C26_ArrangementsEquivalent ==
  (/\ Parsed
   /\ shape.kind \in {"symbol", "letterFirst"}
   /\ shape.sep = CommaSpace
   /\ \A i \in 1..2 : ~shape.groups[i].neg
   /\ DecValue(shape.groups[1].num) <= 90 * Unit
   /\ DecValue(shape.groups[2].num) <= 180 * Unit)
  => /\ result # Null
     /\ \A kind \in {"symbol", "letterFirst"}, spaced \in BOOLEAN :
          result = parseCoordinates(Rearranged(kind, spaced))

\* the two groups of a formatted DMS or DDM text
LatGroup == SubSeq(formatted, 1, IndexOf(formatted, " ") - 1)
LonGroup == SubSeq(formatted, IndexOf(formatted, " ") + 1, Len(formatted))

\* the printed minutes field of a group: between the degree sign and the
\* apostrophe
MinutesField(t) == SubSeq(t, IndexOf(t, DegSign) + 1, IndexOf(t, Apos) - 1)
\* the printed seconds field of a DMS group: between the apostrophe and
\* the double quote
SecondsField(t) == SubSeq(t, IndexOf(t, Apos) + 1, IndexOf(t, DQuote) - 1)

\* C27: in the text formatted as DMS or DDM for a Coordinate in range, the
\* printed minutes field is below 60 and the printed seconds field is
\* below 60: rounding never yields 60.00 seconds or 60.000 minutes.
C27_FieldsBelowSixty ==
  (/\ Formatted
   /\ format \in {DEGREES_MINUTES_SECONDS, DEGREES_DECIMAL_MINUTES}
   /\ isValidLatitude(coordinates.lat)
   /\ isValidLongitude(coordinates.lon))
  => \A t \in {LatGroup, LonGroup} :
       /\ parseFloat(MinutesField(t)) < 60 * Unit
       /\ format = DEGREES_MINUTES_SECONDS
            => parseFloat(SecondsField(t)) < 60 * Unit

\* the rounding precision of a notation: 0.01 arc-second for DMS, 0.001
\* arc-minute for DDM, in degrees
Precision(f) ==
  IF f = DEGREES_MINUTES_SECONDS THEN Unit \div 360000 ELSE Unit \div 60000

\* a and b have the same sign
SameSign(a, b) == (a < 0) = (b < 0) /\ (a > 0) = (b > 0)

\* C28: for a Coordinate c in range, the text formatCoordinates gives for
\* DMS or DDM, parsed again, is a Coordinate equal to c up to the rounding
\* precision of the notation, with the same signs.
C28_AnglesRoundTrip ==
  (/\ Parsed
   /\ format \in {DEGREES_MINUTES_SECONDS, DEGREES_DECIMAL_MINUTES}
   /\ input = formatted
   /\ isValidLatitude(coordinates.lat)
   /\ isValidLongitude(coordinates.lon))
  => /\ result # Null
     /\ SameSign(result.lat, coordinates.lat)
     /\ SameSign(result.lon, coordinates.lon)
     /\ Abs(result.lat - coordinates.lat) <= Precision(format)
     /\ Abs(result.lon - coordinates.lon) <= Precision(format)

\* C29: parseCoordinates returns a Coordinate for symbol, DMS or DDM input
\* only when the first group carries N or S and the second group carries
\* E or W; a first group with E or W, or a second group with N or S, is
\* rejected.
C29_LettersMatchAxis ==
  (/\ Parsed
   /\ shape.kind \in {"symbol", "letterFirst", "dms", "ddm"}
   /\ result # Null)
  => /\ ToUpperCase(shape.groups[1].dir) \in {"N", "S"}
     /\ ToUpperCase(shape.groups[2].dir) \in {"E", "W"}

\* the text has something other than white space around the pair
Surrounded == \E i \in 1..Len(shape.pad) : shape.pad[i] \notin WhiteSpace

\* C30: parseCoordinates returns a Coordinate only when the matched
\* notation consumes the whole trimmed input: a well-formed symbol, DMS or
\* DDM pair with extra characters before or after it (leading digits, a
\* word in front, trailing text) is rejected.
C30_WholeInputConsumed ==
  (/\ Parsed
   /\ shape.kind \in {"symbol", "letterFirst", "dms", "ddm"}
   /\ Surrounded)
  => result = Null

====
